---- MODULE Spec2Model ----
(***************************************************************************)
(* Model of pysdd/io.py (Graphviz DOT export of SDD circuits and vtrees)   *)
(* and of the weighted model counter exercised by tests/test_nnf.py.       *)
(*                                                                         *)
(* A circuit is an arena: a function from node id to a node record.  A     *)
(* vtree is an arena from position to a vtree record.  The reference None  *)
(* of the Python code is the id 0.  A DOT document is the list of lines    *)
(* that sdd_to_dot / vtree_to_dot join with "\n"; every line is a record   *)
(* with the fields that the format strings of io.py fill in.               *)
(***************************************************************************)
EXTENDS Integers, Sequences, FiniteSets, TLC

VARIABLES nodes, vtree, pc, op, args, s, visited, stack, err,
          weights, wmc

vars == <<nodes, vtree, pc, op, args, s, visited, stack, err, weights, wmc>>

(***************************************************************************)
(* Bounds of the model.                                                    *)
(***************************************************************************)
MaxNodes == 2
MaxTotalElems == 2
MaxVNodes == 3
ConcNodes == 2
ConcElems == 1
WmcVars == 2
WmcDecs == 1
WmcElems == 2

None == 0

Procs == {1, 2}

(***************************************************************************)
(* Values written into the document.                                       *)
(***************************************************************************)
\* str(x) of an int
IntName(i) == [k |-> "int", i |-> i, s |-> ""]
\* a str
StrName(str) == [k |-> "str", i |-> 0, s |-> str]
NoName == [k |-> "none", i |-> 0, s |-> ""]

\* node.id of an SddNode, formatted by "{}".format(node.id)
NodeId(n) == [ns |-> "node", a |-> n, b |-> 0]
StartId == [ns |-> "start", a |-> 0, b |-> 0]
NoId == [ns |-> "none", a |-> 0, b |-> 0]

\* faulty variant: the element index is left out of the product node's id
PsId_NoIdx(n, idx) == [ns |-> "ps", a |-> n, b |-> 0]

\* ps_id = "ps_{}_{}".format(node.id, idx)
PsId(n, idx) == [ns |-> "ps", a |-> n, b |-> idx]

Line(t, id, dst, shape, label, ann) ==
    [t |-> t, id |-> id, dst |-> dst, shape |-> shape, label |-> label, ann |-> ann]

\* "digraph sdd {" / "digraph vtree {" and "}"
Open(name) == Line("open", NoId, NoId, name, NoName, [k |-> "none", id |-> 0, pos |-> NoName])
Close == Line("close", NoId, NoId, "", NoName, [k |-> "none", id |-> 0, pos |-> NoName])

\* litnamemap: None, or a dict from int to str
NoMap == [has |-> FALSE, map |-> <<>>]
LitNameMaps == {NoMap, [has |-> TRUE, map |-> <<"a">>]}

\* litnamemap.get(name, name): the keys of the dict are ints
MapGet(litnamemap, name) ==
    IF name.k = "int" /\ name.i \in DOMAIN litnamemap.map
    THEN StrName(litnamemap.map[name.i])
    ELSE name

(***************************************************************************)
(* SddNode accessors.                                                      *)
(***************************************************************************)
is_false(n) == nodes[n].kind = "false"
is_true(n) == nodes[n].kind = "true"
is_literal(n) == nodes[n].kind = "literal"
is_decision(n) == nodes[n].kind = "decision"
elements(n) == nodes[n].elems

\* _format_sddnode_label(node, name, litnamemap, show_id)
FormatSddnodeLabel(n, name, litnamemap) ==
    LET nm == IF name # NoName THEN name
              ELSE IF is_true(n) THEN StrName("TOP")
              ELSE IF is_false(n) THEN StrName("BOTTOM")
              ELSE IntName(nodes[n].literal)
    IN  IF litnamemap.has THEN MapGet(litnamemap, nm) ELSE nm

\* an option appended to a line: its key, and the values formatted into it
Ann(k, id, pos) == [k |-> k, id |-> id, pos |-> pos]
NoXlabel == Ann("none", 0, NoName)

\* _format_sddnode_xlabel(node): "Id:{node.id}\\nVp:{vtree_pos}"
FormatSddnodeXlabel(n) ==
    IF nodes[n].vtree # None
    THEN Ann("xlabel", n, IntName(nodes[n].vtree))
    ELSE Ann("xlabel", n, StrName("n"))

\* faulty variant: the xlabel is added whatever show_id says
ExtraOptions_Always(n, show_id) == FormatSddnodeXlabel(n)

\* extra_options of a node declaration
ExtraOptions(n, show_id) == IF show_id THEN FormatSddnodeXlabel(n) ELSE NoXlabel

\* f"{node.id} [shape=rectangle,label=\"{label}\"{extra_options}];"
LeafDecl(n, litnamemap, show_id) ==
    Line("decl", NodeId(n), NoId, "rectangle",
         FormatSddnodeLabel(n, NoName, litnamemap), ExtraOptions(n, show_id))

\* f"{node.id} [shape=circle,label=\"{label}\"{extra_options}];"
DecisionDecl(n, litnamemap, show_id) ==
    Line("decl", NodeId(n), NoId, "circle",
         FormatSddnodeLabel(n, StrName("+"), litnamemap), ExtraOptions(n, show_id))

\* the four lines of one loop iteration (idx counts from 0, as enumerate does)
ElementLines(n, idx) ==
    LET ps_id == PsId(n, idx)
        prime == elements(n)[idx + 1][1]
        sub == elements(n)[idx + 1][2]
    IN  << Line("decl", ps_id, NoId, "circle", StrName("TIMES"), NoXlabel),
           Line("edge", NodeId(n), ps_id, "", NoName, NoXlabel),
           Line("edge", ps_id, NodeId(prime), "", NoName, NoXlabel),
           Line("edge", ps_id, NodeId(sub), "", NoName, NoXlabel) >>

\* faulty variant: only decision nodes are remembered
MarkVisited_DecisionsOnly(vis, n) == IF is_decision(n) THEN vis \cup {n} ELSE vis

\* visited.add(node)
MarkVisited(vis, n) == vis \cup {n}

\* faulty variant: a node met again is declared again
RevisitLines_Redeclare(n) == << Line("decl", NodeId(n), NoId, "circle", NoName, NoXlabel) >>

\* if node in visited: return []
RevisitLines(n) == << >>

(***************************************************************************)
(* _sddnode_to_dot_int as a function: the lines it returns and the visited *)
(* set it leaves behind.                                                   *)
(***************************************************************************)
RECURSIVE SddnodeToDotInt(_, _, _, _)
RECURSIVE SddnodeElements(_, _, _, _, _)

SddnodeToDotInt(n, vis, litnamemap, show_id) ==
    IF n \in vis THEN [s |-> RevisitLines(n), visited |-> vis]
    ELSE LET vis1 == MarkVisited(vis, n)
         IN  IF is_decision(n)
             THEN LET r == SddnodeElements(n, 0, vis1, litnamemap, show_id)
                  IN  [s |-> <<DecisionDecl(n, litnamemap, show_id)>> \o r.s,
                       visited |-> r.visited]
             ELSE [s |-> <<LeafDecl(n, litnamemap, show_id)>>, visited |-> vis1]

\* the for loop over enumerate(node.elements()), from index idx on
SddnodeElements(n, idx, vis, litnamemap, show_id) ==
    IF idx >= Len(elements(n)) THEN [s |-> << >>, visited |-> vis]
    ELSE LET prime == elements(n)[idx + 1][1]
             sub == elements(n)[idx + 1][2]
             rp == SddnodeToDotInt(prime, vis, litnamemap, show_id)
             rs == SddnodeToDotInt(sub, rp.visited, litnamemap, show_id)
             rest == SddnodeElements(n, idx + 1, rs.visited, litnamemap, show_id)
         IN  [s |-> ElementLines(n, idx) \o rp.s \o rs.s \o rest.s,
              visited |-> rest.visited]

\* faulty variant: one visited set kept across calls
NewVisited_Shared(p) == UNION {visited[q] : q \in Procs}

\* visited = set()
NewVisited(p) == {}

\* sdd_to_dot(node, litnamemap, show_id): the error raised, or the lines joined
SddToDot(root, litnamemap, show_id) ==
    IF root = None
    THEN [err |-> "ValueError: No root node given", s |-> << >>, visited |-> {}]
    ELSE LET r == SddnodeToDotInt(root, {}, litnamemap, show_id)
         IN  [err |-> "none",
              s |-> <<Open("sdd")>> \o r.s \o <<Close>>,
              visited |-> r.visited]

(***************************************************************************)
(* Vtree accessors and vtree_to_dot.                                       *)
(***************************************************************************)
left(v) == vtree[v].left
right(v) == vtree[v].right
var(v) == vtree[v].var
position(v) == v

VtreeId(v) == [ns |-> "node", a |-> position(v), b |-> 0]

\* faulty variant: a leaf is labelled with its position
VtreeDecl_LabelPosition(v, litnamemap, show_id) ==
    IF left(v) = None /\ right(v) = None
    THEN Line("decl", VtreeId(v), NoId, "box",
              IF litnamemap.has THEN MapGet(litnamemap, IntName(position(v)))
                                ELSE IntName(position(v)),
              NoXlabel)
    ELSE IF show_id
         THEN Line("decl", VtreeId(v), NoId, "point", IntName(position(v)), NoXlabel)
         ELSE Line("decl", VtreeId(v), NoId, "point", NoName, NoXlabel)

\* the declaration of one vtree node (lines 104-113)
VtreeDecl(v, litnamemap, show_id) ==
    IF left(v) = None /\ right(v) = None
    THEN Line("decl", VtreeId(v), NoId, "box",
              IF litnamemap.has THEN MapGet(litnamemap, IntName(var(v)))
                                ELSE IntName(var(v)),
              NoXlabel)
    ELSE IF show_id
         THEN Line("decl", VtreeId(v), NoId, "point", IntName(position(v)), NoXlabel)
         ELSE Line("decl", VtreeId(v), NoId, "point", NoName, NoXlabel)

\* the edge to a child; side is "left" or "right" (lines 114-118, 120-124)
VtreeEdge(v, child, side, show_id) ==
    Line("edge", VtreeId(v), VtreeId(child), "", NoName,
         IF show_id THEN Ann("headlabel_" \o side, 0, IntName(position(child)))
                    ELSE NoXlabel)

\* the two lines added for the root when show_id is set (lines 91-92)
VtreeStartLines(v) ==
    << Line("decl", StartId, NoId, "plaintext", NoName, NoXlabel),
       Line("edge", StartId, VtreeId(v), "", NoName,
            Ann("headlabel", 0, IntName(position(v)))) >>

RECURSIVE VtreeToDotInt(_, _, _)
\* _vtree_to_dot_int(vtree, litnamemap, show_id)
VtreeToDotInt(v, litnamemap, show_id) ==
    <<VtreeDecl(v, litnamemap, show_id)>>
    \o (IF left(v) # None
        THEN <<VtreeEdge(v, left(v), "left", show_id)>>
             \o VtreeToDotInt(left(v), litnamemap, show_id)
        ELSE << >>)
    \o (IF right(v) # None
        THEN <<VtreeEdge(v, right(v), "right", show_id)>>
             \o VtreeToDotInt(right(v), litnamemap, show_id)
        ELSE << >>)

\* vtree_to_dot(vtree, litnamemap, show_id).  With vtree None the first
\* attribute access, vtree.position() (line 92) or vtree.left() (line 102),
\* raises AttributeError after "digraph vtree {" was put in the local list.
VtreeToDot(root, litnamemap, show_id) ==
    IF root = None
    THEN [err |-> "AttributeError", s |-> <<Open("vtree")>>, visited |-> {}]
    ELSE [err |-> "none",
          s |-> <<Open("vtree")>>
                \o (IF show_id THEN VtreeStartLines(root) ELSE << >>)
                \o VtreeToDotInt(root, litnamemap, show_id)
                \o <<Close>>,
          visited |-> {}]

(***************************************************************************)
(* The circuits and vtrees handed to the exporters.  They are built by the *)
(* SDD library; io.py only reads them.                                     *)
(***************************************************************************)
\* a node without elements: its kind follows from its id and the pattern k
LeafNode(n, k) ==
    LET c == (n + k) % 4
    IN  [kind |-> IF c = 1 \/ c = 2 THEN "literal" ELSE IF c = 3 THEN "true" ELSE "false",
         literal |-> IF c = 1 THEN n ELSE IF c = 2 THEN 0 - n ELSE 0,
         elems |-> << >>,
         vtree |-> IF n % 2 = 1 THEN 1 ELSE None]

DecisionNode(n, elems) ==
    [kind |-> "decision", literal |-> 0, elems |-> elems,
     vtree |-> IF n % 2 = 1 THEN 1 ELSE None]

\* element slots <<owner, prime, sub>>, listed by owner
SlotSeqs(N, E) ==
    { q \in UNION { [1..k -> (1..N) \X (1..N) \X (1..N)] : k \in 0..E } :
        \A i \in 1..(Len(q) - 1) : q[i][1] <= q[i + 1][1] }

ElemsOf(q, n) ==
    LET own == SelectSeq(q, LAMBDA e : e[1] = n)
    IN  [i \in 1..Len(own) |-> <<own[i][2], own[i][3]>>]

MkGraph(N, q, k) ==
    [n \in 1..N |-> IF ElemsOf(q, n) = << >> THEN LeafNode(n, k)
                    ELSE DecisionNode(n, ElemsOf(q, n))]

LeafPatterns == {0, 2}

\* every graph of N nodes with at most E elements in all, cycles included
Graphs(N, E) == { MkGraph(N, q, k) : q \in SlotSeqs(N, E), k \in LeafPatterns }

NoTree == [root |-> None, arena |-> << >>]

\* the binary trees over the in-order positions lo..hi
RECURSIVE Subtrees(_, _)
Subtrees(lo, hi) ==
    IF lo > hi THEN {NoTree}
    ELSE UNION { { [root |-> r,
                    arena |-> L.arena @@ R.arena
                              @@ (r :> [left |-> L.root, right |-> R.root, var |-> 0])]
                   : L \in Subtrees(lo, r - 1), R \in Subtrees(r + 1, hi) }
                 : r \in lo..hi }

\* the leaves carry the variables 1, 2, ... from left to right
WithVars(a) ==
    LET leaf(v) == a[v].left = None /\ a[v].right = None
    IN  [v \in DOMAIN a |->
            [a[v] EXCEPT !.var = IF leaf(v)
                                 THEN Cardinality({u \in DOMAIN a : u <= v /\ leaf(u)})
                                 ELSE 0]]

Vtrees(N) == UNION { { WithVars(t.arena) : t \in Subtrees(1, n) } : n \in 1..N }

OneLeaf == << [left |-> None, right |-> None, var |-> 1] >>

(***************************************************************************)
(* The calls, one step at a time.  stack[p] holds the frames of the        *)
(* recursion, the running call last; a frame is the node of the call, the  *)
(* loop index and the place the call has reached.                          *)
(***************************************************************************)
Frame(n, idx, stage) == [node |-> n, idx |-> idx, stage |-> stage]
Top(p) == stack[p][Len(stack[p])]
Pop(st) == SubSeq(st, 1, Len(st) - 1)
SetTop(st, f) == [st EXCEPT ![Len(st)] = f]
NoArgs == [root |-> None, litnamemap |-> NoMap, show_id |-> FALSE]

InitCalls ==
    /\ pc = [p \in Procs |-> "idle"]
    /\ op = [p \in Procs |-> "none"]
    /\ args = [p \in Procs |-> NoArgs]
    /\ s = [p \in Procs |-> << >>]
    /\ visited = [p \in Procs |-> {}]
    /\ stack = [p \in Procs |-> << >>]
    /\ err = [p \in Procs |-> "none"]

\* sdd_to_dot, lines 19-25
StartSdd(p) ==
    /\ pc[p] = "idle"
    /\ \E root \in {None} \cup DOMAIN nodes, lm \in LitNameMaps, sh \in BOOLEAN :
         /\ op' = [op EXCEPT ![p] = "sdd"]
         /\ args' = [args EXCEPT ![p] = [root |-> root, litnamemap |-> lm, show_id |-> sh]]
         /\ IF root = None
            THEN /\ pc' = [pc EXCEPT ![p] = "error"]
                 /\ err' = [err EXCEPT ![p] = "ValueError: No root node given"]
                 /\ UNCHANGED <<s, visited, stack>>
            ELSE /\ pc' = [pc EXCEPT ![p] = "run"]
                 /\ s' = [s EXCEPT ![p] = <<Open("sdd")>>]
                 /\ visited' = [visited EXCEPT ![p] = NewVisited(p)]
                 /\ stack' = [stack EXCEPT ![p] = <<Frame(root, 0, "call")>>]
                 /\ UNCHANGED err
    /\ UNCHANGED <<nodes, vtree, weights, wmc>>

\* _sddnode_to_dot_int, lines 57-71: the entry of a call
SddCall(p) ==
    /\ pc[p] = "run" /\ op[p] = "sdd" /\ stack[p] # << >>
    /\ Top(p).stage = "call"
    /\ LET n == Top(p).node
           lm == args[p].litnamemap
           sh == args[p].show_id
       IN  IF n \in visited[p]
           THEN /\ s' = [s EXCEPT ![p] = @ \o RevisitLines(n)]
                /\ stack' = [stack EXCEPT ![p] = Pop(@)]
                /\ UNCHANGED visited
           ELSE /\ visited' = [visited EXCEPT ![p] = MarkVisited(@, n)]
                /\ IF is_decision(n)
                   THEN /\ s' = [s EXCEPT ![p] = Append(@, DecisionDecl(n, lm, sh))]
                        /\ stack' = [stack EXCEPT ![p] = SetTop(@, Frame(n, 0, "loop"))]
                   ELSE /\ s' = [s EXCEPT ![p] = Append(@, LeafDecl(n, lm, sh))]
                        /\ stack' = [stack EXCEPT ![p] = Pop(@)]
    /\ UNCHANGED <<nodes, vtree, pc, op, args, err, weights, wmc>>

\* lines 72-80: the next element's lines and the call on its prime, or,
\* after the last element, return s (line 82)
SddLoop(p) ==
    /\ pc[p] = "run" /\ op[p] = "sdd" /\ stack[p] # << >>
    /\ Top(p).stage = "loop"
    /\ LET n == Top(p).node
           idx == Top(p).idx
       IN  IF idx < Len(elements(n))
           THEN /\ s' = [s EXCEPT ![p] = @ \o ElementLines(n, idx)]
                /\ stack' = [stack EXCEPT ![p] =
                                Append(SetTop(@, Frame(n, idx, "sub")),
                                       Frame(elements(n)[idx + 1][1], 0, "call"))]
           ELSE /\ stack' = [stack EXCEPT ![p] = Pop(@)]
                /\ UNCHANGED s
    /\ UNCHANGED <<nodes, vtree, pc, op, args, visited, err, weights, wmc>>

\* faulty variant: the call on the sub is left out
SddSub_Skip(p) ==
    /\ pc[p] = "run" /\ op[p] = "sdd" /\ stack[p] # << >>
    /\ Top(p).stage = "sub"
    /\ stack' = [stack EXCEPT ![p] = SetTop(@, Frame(Top(p).node, Top(p).idx + 1, "loop"))]
    /\ UNCHANGED <<nodes, vtree, pc, op, args, s, visited, err, weights, wmc>>

\* line 81: the call on the sub
SddSub(p) ==
    /\ pc[p] = "run" /\ op[p] = "sdd" /\ stack[p] # << >>
    /\ Top(p).stage = "sub"
    /\ LET n == Top(p).node
           idx == Top(p).idx
       IN  stack' = [stack EXCEPT ![p] =
                        Append(SetTop(@, Frame(n, idx + 1, "loop")),
                               Frame(elements(n)[idx + 1][2], 0, "call"))]
    /\ UNCHANGED <<nodes, vtree, pc, op, args, s, visited, err, weights, wmc>>

\* vtree_to_dot, lines 87-93
StartVtree(p) ==
    /\ pc[p] = "idle"
    /\ \E root \in {None} \cup DOMAIN vtree, lm \in LitNameMaps, sh \in BOOLEAN :
         /\ op' = [op EXCEPT ![p] = "vtree"]
         /\ args' = [args EXCEPT ![p] = [root |-> root, litnamemap |-> lm, show_id |-> sh]]
         /\ IF root = None
            THEN /\ pc' = [pc EXCEPT ![p] = "error"]
                 /\ err' = [err EXCEPT ![p] = "AttributeError"]
                 /\ s' = [s EXCEPT ![p] = <<Open("vtree")>>]
                 /\ UNCHANGED stack
            ELSE /\ pc' = [pc EXCEPT ![p] = "run"]
                 /\ s' = [s EXCEPT ![p] =
                            <<Open("vtree")>> \o (IF sh THEN VtreeStartLines(root) ELSE << >>)]
                 /\ stack' = [stack EXCEPT ![p] = <<Frame(root, 0, "call")>>]
                 /\ UNCHANGED err
    /\ UNCHANGED <<nodes, vtree, visited, weights, wmc>>

\* _vtree_to_dot_int, lines 101-113: the declaration of the node
VtreeCall(p) ==
    /\ pc[p] = "run" /\ op[p] = "vtree" /\ stack[p] # << >>
    /\ Top(p).stage = "call"
    /\ LET v == Top(p).node
       IN  /\ s' = [s EXCEPT ![p] =
                       Append(@, VtreeDecl(v, args[p].litnamemap, args[p].show_id))]
           /\ stack' = [stack EXCEPT ![p] = SetTop(@, Frame(v, 0, "left"))]
    /\ UNCHANGED <<nodes, vtree, pc, op, args, visited, err, weights, wmc>>

\* lines 114-119: the left child
VtreeLeft(p) ==
    /\ pc[p] = "run" /\ op[p] = "vtree" /\ stack[p] # << >>
    /\ Top(p).stage = "left"
    /\ LET v == Top(p).node
       IN  IF left(v) # None
           THEN /\ s' = [s EXCEPT ![p] =
                            Append(@, VtreeEdge(v, left(v), "left", args[p].show_id))]
                /\ stack' = [stack EXCEPT ![p] =
                                Append(SetTop(@, Frame(v, 0, "right")),
                                       Frame(left(v), 0, "call"))]
           ELSE /\ stack' = [stack EXCEPT ![p] = SetTop(@, Frame(v, 0, "right"))]
                /\ UNCHANGED s
    /\ UNCHANGED <<nodes, vtree, pc, op, args, visited, err, weights, wmc>>

\* lines 120-126: the right child, then return s
VtreeRight(p) ==
    /\ pc[p] = "run" /\ op[p] = "vtree" /\ stack[p] # << >>
    /\ Top(p).stage = "right"
    /\ LET v == Top(p).node
       IN  IF right(v) # None
           THEN /\ s' = [s EXCEPT ![p] =
                            Append(@, VtreeEdge(v, right(v), "right", args[p].show_id))]
                /\ stack' = [stack EXCEPT ![p] =
                                Append(SetTop(@, Frame(v, 0, "return")),
                                       Frame(right(v), 0, "call"))]
           ELSE /\ stack' = [stack EXCEPT ![p] = Pop(@)]
                /\ UNCHANGED s
    /\ UNCHANGED <<nodes, vtree, pc, op, args, visited, err, weights, wmc>>

\* line 126: return s, after the right subtree
VtreeReturn(p) ==
    /\ pc[p] = "run" /\ op[p] = "vtree" /\ stack[p] # << >>
    /\ Top(p).stage = "return"
    /\ stack' = [stack EXCEPT ![p] = Pop(@)]
    /\ UNCHANGED <<nodes, vtree, pc, op, args, s, visited, err, weights, wmc>>

\* sdd_to_dot lines 26-29, vtree_to_dot lines 94-97: the closing line
Return(p) ==
    /\ pc[p] = "run" /\ stack[p] = << >>
    /\ s' = [s EXCEPT ![p] = Append(@, Close)]
    /\ pc' = [pc EXCEPT ![p] = "done"]
    /\ UNCHANGED <<nodes, vtree, op, args, visited, stack, err, weights, wmc>>

NoWeights == << >>
NoWmc == [pc |-> "idle", root |-> None, value |-> <<0, 1>>, err |-> "none"]

\* one exporter call over a circuit, or over a vtree
Init ==
    /\ \/ nodes \in Graphs(MaxNodes, MaxTotalElems) /\ vtree = OneLeaf
       \/ nodes \in Graphs(MaxNodes, 0) /\ vtree \in Vtrees(MaxVNodes)
    /\ InitCalls
    /\ weights = NoWeights
    /\ wmc = NoWmc

Next ==
    \/ StartSdd(1)
    \/ SddCall(1)
    \/ SddLoop(1)
    \/ SddSub(1)
    \/ StartVtree(1)
    \/ VtreeCall(1)
    \/ VtreeLeft(1)
    \/ VtreeRight(1)
    \/ VtreeReturn(1)
    \/ Return(1)

Spec == Init /\ [][Next]_vars

(***************************************************************************)
(* Reading a document and a circuit, for the properties below.             *)
(***************************************************************************)
DeclIdxs(doc) == { i \in 1..Len(doc) : doc[i].t = "decl" }
EdgeIdxs(doc) == { i \in 1..Len(doc) : doc[i].t = "edge" }
NumDecl(doc, id) == Cardinality({ i \in DeclIdxs(doc) : doc[i].id = id })
NumEdge(doc, src, dst) ==
    Cardinality({ i \in EdgeIdxs(doc) : doc[i].id = src /\ doc[i].dst = dst })
NumEdgeTo(doc, dst) == Cardinality({ i \in EdgeIdxs(doc) : doc[i].dst = dst })
NumEdgeFrom(doc, src) == Cardinality({ i \in EdgeIdxs(doc) : doc[i].id = src })
\* the declared ids and the edges, in the order of the document
DeclSeq(doc) ==
    LET d == SelectSeq(doc, LAMBDA l : l.t = "decl") IN [i \in 1..Len(d) |-> d[i].id]
EdgeSeq(doc) ==
    LET e == SelectSeq(doc, LAMBDA l : l.t = "edge")
    IN  [i \in 1..Len(e) |-> <<e[i].id, e[i].dst>>]

Children(n) ==
    IF is_decision(n)
    THEN { elements(n)[i][j] : i \in 1..Len(elements(n)), j \in {1, 2} }
    ELSE {}

RECURSIVE Closure(_)
Closure(S) ==
    LET T == S \cup UNION { Children(n) : n \in S }
    IN  IF T = S THEN S ELSE Closure(T)

\* the nodes reachable from root, root included
Reach(root) == Closure({root})

\* the (decision, element, prime-or-sub) slots below root that refer to c
SlotsTo(root, c) ==
    { x \in Reach(root) \X (1..Len(nodes)) \X {1, 2} :
        /\ is_decision(x[1])
        /\ x[2] <= Len(elements(x[1]))
        /\ elements(x[1])[x[2]][x[3]] = c }

TotalElems(root) ==
    Cardinality({ x \in Reach(root) \X (1..Len(nodes)) :
                    is_decision(x[1]) /\ x[2] <= Len(elements(x[1])) })

\* some node below root lies on a cycle
HasCycle(root) == \E n \in Reach(root) : n \in Closure(Children(n))

SddDone(p) == pc[p] = "done" /\ op[p] = "sdd"
VtreeDone(p) == pc[p] = "done" /\ op[p] = "vtree"

(***************************************************************************)
(* C1.  One call of sdd_to_dot declares every node reachable from the root *)
(* exactly once, whatever its in-degree, and emits one edge into a node    *)
(* for every (decision, element, prime-or-sub) slot that refers to it.     *)
(***************************************************************************)
C1_DeclaredOnceEdgePerSlot ==
    SddDone(1) =>
        \A n \in Reach(args[1].root) :
            /\ NumDecl(s[1], NodeId(n)) = 1
            /\ NumEdgeTo(s[1], NodeId(n)) = Cardinality(SlotsTo(args[1].root, n))

\* a finished export of a circuit with a node of fan-in two or more
C1_Witness ==
    /\ SddDone(1)
    /\ \E n \in Reach(args[1].root) :
          /\ Cardinality(SlotsTo(args[1].root, n)) >= 2
          /\ NumEdgeTo(s[1], NodeId(n)) >= 2

(***************************************************************************)
(* C7.  In the document of sdd_to_dot a reachable False/True/Literal node  *)
(* has one declaration and no outgoing edge; a reachable Decision node     *)
(* with n elements has one declaration, n product declarations with        *)
(* pairwise distinct ids, n edges to them, and from product i one edge to  *)
(* prime i and one to sub i.  So there are (reachable nodes + elements)    *)
(* declarations and 3 * elements edges; a lone Literal gives one           *)
(* declaration and no edge.                                                *)
(***************************************************************************)
C7_DocumentShape ==
    SddDone(1) =>
        LET root == args[1].root
            doc == s[1]
        IN  /\ \A n \in Reach(root) :
                 IF is_decision(n)
                 THEN /\ NumDecl(doc, NodeId(n)) = 1
                      /\ NumEdgeFrom(doc, NodeId(n)) = Len(elements(n))
                      /\ \A i \in 0..(Len(elements(n)) - 1) :
                            LET prime == elements(n)[i + 1][1]
                                sub == elements(n)[i + 1][2]
                            IN  /\ NumDecl(doc, PsId(n, i)) = 1
                                /\ NumEdge(doc, NodeId(n), PsId(n, i)) = 1
                                /\ NumEdgeFrom(doc, PsId(n, i)) = 2
                                /\ NumEdge(doc, PsId(n, i), NodeId(prime))
                                     = (IF prime = sub THEN 2 ELSE 1)
                                /\ NumEdge(doc, PsId(n, i), NodeId(sub))
                                     = (IF prime = sub THEN 2 ELSE 1)
                 ELSE /\ NumDecl(doc, NodeId(n)) = 1
                      /\ NumEdgeFrom(doc, NodeId(n)) = 0
            /\ Cardinality(DeclIdxs(doc)) = Cardinality(Reach(root)) + TotalElems(root)
            /\ Cardinality(EdgeIdxs(doc)) = 3 * TotalElems(root)
            /\ Cardinality({ doc[i].id : i \in DeclIdxs(doc) }) = Cardinality(DeclIdxs(doc))
            /\ is_literal(root) => Cardinality(DeclIdxs(doc)) = 1 /\ EdgeIdxs(doc) = {}

\* a finished export whose root is a decision with two elements or more and
\* has a leaf below it
C7_Witness ==
    /\ SddDone(1)
    /\ is_decision(args[1].root)
    /\ Len(elements(args[1].root)) >= 2
    /\ \E n \in Reach(args[1].root) : ~is_decision(n)

(***************************************************************************)
(* C10.  While sdd_to_dot runs, the visited set holds exactly the nodes    *)
(* declared so far, all of them reachable from the root, and the node of   *)
(* every call that is exploring its elements is in it.  When the call      *)
(* returns, the visited set is the set of nodes reachable from the root,   *)
(* every node that an edge points to is declared, and no other node is.    *)
(***************************************************************************)
C10_VisitedIsReachable ==
    (op[1] = "sdd" /\ pc[1] \in {"run", "done"}) =>
        LET root == args[1].root
            doc == s[1]
        IN  /\ visited[1] \subseteq Reach(root)
            /\ visited[1] = { n \in DOMAIN nodes : NumDecl(doc, NodeId(n)) >= 1 }
            /\ \A i \in 1..Len(stack[1]) :
                  stack[1][i].stage \in {"loop", "sub"} => stack[1][i].node \in visited[1]
            /\ pc[1] = "done" =>
                  /\ visited[1] = Reach(root)
                  /\ \A i \in EdgeIdxs(doc) : NumDecl(doc, doc[i].dst) >= 1

\* a finished export of a decision node that left some node of the circuit unreached
C10_Witness ==
    /\ SddDone(1)
    /\ EdgeIdxs(s[1]) # {}
    /\ DOMAIN nodes \ Reach(args[1].root) # {}

(***************************************************************************)
(* C4.  Both exporters, called without a root, fail with the NoRoot error  *)
(* (the ValueError "No root node given") before any part of the document   *)
(* is built, and with no other error.                                      *)
(***************************************************************************)
C4_NoRootError ==
    \A p \in Procs :
        (op[p] # "none" /\ args[p].root = None) =>
            /\ pc[p] = "error"
            /\ err[p] = "ValueError: No root node given"
            /\ s[p] = << >>

(***************************************************************************)
(* C5.  A call of _sddnode_to_dot_int on a node that is on the current     *)
(* path of the traversal (a cycle) fails with a MalformedCircuit error.    *)
(***************************************************************************)
Revisit(p) ==
    /\ pc[p] = "run" /\ op[p] = "sdd" /\ stack[p] # << >>
    /\ Top(p).stage = "call"
    /\ Top(p).node \in visited[p]

AncestorRevisit(p) ==
    /\ Revisit(p)
    /\ \E i \in 1..(Len(stack[p]) - 1) : stack[p][i].node = Top(p).node

VChildren(v) == {left(v), right(v)} \ {None}

RECURSIVE VClosure(_)
VClosure(S) ==
    LET T == S \cup UNION { VChildren(v) : v \in S }
    IN  IF T = S THEN S ELSE VClosure(T)

\* the nodes of the subtree of v, v included
Subtree(v) == IF v = None THEN {} ELSE VClosure({v})

DeclAt(doc, id) == CHOOSE i \in DeclIdxs(doc) : doc[i].id = id

C8_VtreeDocument ==
    (VtreeDone(1) /\ ~args[1].show_id) =>
        LET root == args[1].root
            lm == args[1].litnamemap
            doc == s[1]
            at(v) == DeclAt(doc, VtreeId(v))
        IN  /\ Cardinality(DeclIdxs(doc)) = Cardinality(Subtree(root))
            /\ Cardinality(EdgeIdxs(doc)) = Cardinality(Subtree(root)) - 1
            /\ \A v \in Subtree(root) :
                 /\ NumDecl(doc, VtreeId(v)) = 1
                 /\ IF VChildren(v) = {}
                    THEN /\ doc[at(v)].shape = "box"
                         /\ doc[at(v)].label =
                               (IF lm.has /\ var(v) \in DOMAIN lm.map
                                THEN StrName(lm.map[var(v)])
                                ELSE IntName(var(v)))
                    ELSE /\ doc[at(v)].shape = "point"
                         /\ doc[at(v)].label = NoName
                 /\ NumEdgeFrom(doc, VtreeId(v)) = Cardinality(VChildren(v))
                 /\ \A c \in VChildren(v) : NumEdge(doc, VtreeId(v), VtreeId(c)) = 1
                 /\ \A d \in Subtree(v) \ {v} : at(v) < at(d)
                 /\ \A a \in Subtree(left(v)), b \in Subtree(right(v)) : at(a) < at(b)

\* a finished export, without show_id and with a litnamemap, of a tree whose
\* root has both children
C8_Witness ==
    /\ VtreeDone(1) /\ ~args[1].show_id /\ args[1].litnamemap.has
    /\ left(args[1].root) # None /\ right(args[1].root) # None

(***************************************************************************)
(* C9.  show_id is cosmetic in both exporters: the document has the same   *)
(* set of declared ids, the same set of edges and the same order of        *)
(* declarations with show_id set as with it unset.                         *)
(***************************************************************************)
\* the document of the finished call of p, and the document of the same
\* call with show_id the other way round
OtherDoc(p) ==
    IF op[p] = "sdd"
    THEN SddToDot(args[p].root, args[p].litnamemap, ~args[p].show_id).s
    ELSE VtreeToDot(args[p].root, args[p].litnamemap, ~args[p].show_id).s
DocWith(p) == IF args[p].show_id THEN s[p] ELSE OtherDoc(p)
DocWithout(p) == IF args[p].show_id THEN OtherDoc(p) ELSE s[p]
SetOf(seq) == { seq[i] : i \in 1..Len(seq) }

C9_ShowIdCosmetic ==
    pc[1] = "done" =>
        /\ SetOf(DeclSeq(DocWith(1))) = SetOf(DeclSeq(DocWithout(1)))
        /\ SetOf(EdgeSeq(DocWith(1))) = SetOf(EdgeSeq(DocWithout(1)))
        /\ DeclSeq(DocWith(1)) = DeclSeq(DocWithout(1))

(***************************************************************************)
(* C9, amended.  In sdd_to_dot show_id changes no id, edge, label or       *)
(* order: it only adds the xlabel with the node's id to the declaration of *)
(* every circuit node (not to the product nodes).  In vtree_to_dot show_id *)
(* adds, right after the opening line, the declaration of a node "start"   *)
(* and an edge from it to the root; the other lines keep their ids, edges  *)
(* and order, an internal node gets its position as label and every edge   *)
(* the position of its target as head label; a leaf's declaration does not *)
(* change.                                                                 *)
(***************************************************************************)
C9_ShowIdAddsAnnotations ==
    pc[1] = "done" =>
        LET w == DocWith(1)
            wo == DocWithout(1)
            root == args[1].root
        IN  IF op[1] = "sdd"
            THEN /\ Len(w) = Len(wo)
                 /\ \A i \in 1..Len(w) :
                       /\ wo[i] = [w[i] EXCEPT !.ann = NoXlabel]
                       /\ w[i].ann # NoXlabel <=> (w[i].t = "decl" /\ w[i].id.ns = "node")
                       /\ w[i].ann # NoXlabel =>
                             w[i].ann.k = "xlabel" /\ NodeId(w[i].ann.id) = w[i].id
            ELSE /\ Len(w) = Len(wo) + 2
                 /\ w[1] = wo[1]
                 /\ <<w[2], w[3]>> = VtreeStartLines(root)
                 /\ \A i \in 2..Len(wo) :
                       LET a == w[i + 2]
                           b == wo[i]
                       IN  /\ a.t = b.t /\ a.id = b.id /\ a.dst = b.dst /\ a.shape = b.shape
                           /\ b.ann = NoXlabel
                           /\ a.t = "edge" =>
                                 /\ a.ann.k \in {"headlabel_left", "headlabel_right"}
                                 /\ VtreeId(a.ann.pos.i) = a.dst
                           /\ a.t # "edge" => a.ann = NoXlabel
                           /\ (a.t = "decl" /\ a.shape = "point") =>
                                 /\ VtreeId(a.label.i) = a.id /\ a.label.k = "int"
                                 /\ b.label = NoName
                           /\ ~(a.t = "decl" /\ a.shape = "point") => a.label = b.label

\* a finished vtree export with show_id of a tree with an internal node
C9_Witness ==
    /\ VtreeDone(1) /\ args[1].show_id
    /\ VChildren(args[1].root) # {}

(***************************************************************************)
(* Two calls at once over the same circuit and vtree, their steps          *)
(* interleaved in every order.  The calls take a root and no litnamemap;   *)
(* the second call sets show_id, the first does not.                       *)
(***************************************************************************)
\* the vtree of three nodes: an internal root at position 2 and two leaves
Balanced == << [left |-> None, right |-> None, var |-> 1],
               [left |-> 1, right |-> 3, var |-> 0],
               [left |-> None, right |-> None, var |-> 2] >>

InitConc ==
    /\ nodes \in { MkGraph(ConcNodes, q, 0) : q \in SlotSeqs(ConcNodes, ConcElems) }
    /\ vtree = Balanced
    /\ InitCalls
    /\ weights = NoWeights
    /\ wmc = NoWmc

ConcArgs(p) ==
    /\ args[p].root # None
    /\ args[p].litnamemap = NoMap
    /\ args[p].show_id = (p = 2)
    /\ op[p] = "vtree" => args[p].root = 2

NextConc ==
    \E p \in Procs :
        \/ StartSdd(p) /\ ConcArgs(p)'
        \/ SddCall(p)
        \/ SddLoop(p)
        \/ SddSub(p)
        \/ StartVtree(p) /\ ConcArgs(p)'
        \/ VtreeCall(p)
        \/ VtreeLeft(p)
        \/ VtreeRight(p)
        \/ VtreeReturn(p)
        \/ Return(p)

SpecConc == InitConc /\ [][NextConc]_vars

\* the document the call of p returns when it runs alone
AloneDoc(p) ==
    IF op[p] = "sdd"
    THEN SddToDot(args[p].root, args[p].litnamemap, args[p].show_id).s
    ELSE VtreeToDot(args[p].root, args[p].litnamemap, args[p].show_id).s

IsPrefix(a, b) == Len(a) <= Len(b) /\ SubSeq(b, 1, Len(a)) = a

Isolated ==
    \A p \in Procs :
        pc[p] \in {"run", "done"} =>
            /\ IsPrefix(s[p], AloneDoc(p))
            /\ pc[p] = "done" => s[p] = AloneDoc(p)
            /\ op[p] = "sdd" =>
                  visited[p] = { n \in DOMAIN nodes : NumDecl(s[p], NodeId(n)) >= 1 }
            /\ op[p] = "vtree" => visited[p] = {}

(***************************************************************************)
(* C6.  Two exporter calls over the same circuit and vtree, interleaved    *)
(* step by step, do not disturb each other: no step changes the circuit or *)
(* the vtree, the visited set of a call holds the nodes that this call     *)
(* declared and no other, and each call builds and returns the document it *)
(* returns when run alone.                                                 *)
(***************************************************************************)
C6_CallsAreIsolated ==
    /\ []Isolated
    /\ [][nodes' = nodes /\ vtree' = vtree]_vars

\* both calls are running and have visited a common node
C6_Witness ==
    /\ pc[1] = "run" /\ pc[2] = "run"
    /\ op[1] = "sdd" /\ op[2] = "sdd"
    /\ visited[1] \cap visited[2] # {}
    /\ visited[1] # visited[2]

(***************************************************************************)
(* Weighted model counting (pysdd.util, called by tests/test_nnf.py).      *)
(* Numbers are fractions <<numerator, denominator>> in lowest terms.       *)
(***************************************************************************)
RECURSIVE Gcd(_, _)
Gcd(a, b) == IF b = 0 THEN a ELSE Gcd(b, a % b)
Abs(x) == IF x < 0 THEN 0 - x ELSE x
Norm(r) == LET g == Gcd(Abs(r[1]), r[2]) IN <<r[1] \div g, r[2] \div g>>
RatAdd(a, b) == Norm(<<a[1] * b[2] + b[1] * a[2], a[2] * b[2]>>)
RatMul(a, b) == Norm(<<a[1] * b[1], a[2] * b[2]>>)
Zero == <<0, 1>>
One == <<1, 1>>
Half == <<1, 2>>

RECURSIVE WmcNode(_, _, _, _)
RECURSIVE WmcElements(_, _, _, _, _, _)

\* faulty variant: the constant true counts for nothing
WmcLeaf_TrueIsZero(g, w, n) ==
    IF g[n].kind = "literal"
    THEN IF g[n].literal \in DOMAIN w
         THEN [err |-> "none", value |-> w[g[n].literal]]
         ELSE [err |-> "MissingWeight", value |-> Zero]
    ELSE [err |-> "none", value |-> Zero]

\* value(False) = 0, value(True) = 1, value(Literal l) = weights[l]
WmcLeaf(g, w, n) ==
    IF g[n].kind = "false" THEN [err |-> "none", value |-> Zero]
    ELSE IF g[n].kind = "true" THEN [err |-> "none", value |-> One]
    ELSE IF g[n].literal \in DOMAIN w
         THEN [err |-> "none", value |-> w[g[n].literal]]
         ELSE [err |-> "MissingWeight", value |-> Zero]

\* faulty variant: an element counts prime + sub
Combine_Sum(acc, vp, vs) == RatAdd(acc, RatAdd(vp, vs))

\* the running sum of value(prime) * value(sub)
Combine(acc, vp, vs) == RatAdd(acc, RatMul(vp, vs))

\* the value of node n of circuit g under the weights w, computed once per
\* node: memo maps the nodes already valued to their values
WmcNode(g, w, n, memo) ==
    IF n \in DOMAIN memo THEN [err |-> "none", value |-> memo[n], memo |-> memo]
    ELSE IF g[n].kind = "decision"
         THEN WmcElements(g, w, n, 1, Zero, memo)
         ELSE LET r == WmcLeaf(g, w, n)
              IN  [err |-> r.err, value |-> r.value,
                   memo |-> IF r.err = "none" THEN memo @@ (n :> r.value) ELSE memo]

\* the sum over the elements of n from the i-th on, acc the sum so far
WmcElements(g, w, n, i, acc, memo) ==
    IF i > Len(g[n].elems)
    THEN [err |-> "none", value |-> acc, memo |-> memo @@ (n :> acc)]
    ELSE LET rp == WmcNode(g, w, g[n].elems[i][1], memo)
         IN  IF rp.err # "none" THEN rp
             ELSE LET rs == WmcNode(g, w, g[n].elems[i][2], rp.memo)
                  IN  IF rs.err # "none" THEN rs
                      ELSE WmcElements(g, w, n, i + 1,
                                       Combine(acc, rp.value, rs.value), rs.memo)

\* weighted_model_count(root, weights)
WeightedModelCount(g, w, root) == WmcNode(g, w, root, << >>)

(***************************************************************************)
(* The circuits that are counted: the constants and the literals of the    *)
(* variables, and above them decision nodes whose primes are satisfiable,  *)
(* pairwise exclusive and exhaustive and share no variable with their sub. *)
(***************************************************************************)
WmcLeafNode(n) ==
    [kind |-> IF n = 1 THEN "false" ELSE IF n = 2 THEN "true" ELSE "literal",
     literal |-> IF n <= 2 THEN 0
                 ELSE IF n % 2 = 1 THEN (n - 1) \div 2 ELSE 0 - ((n - 1) \div 2),
     elems |-> << >>,
     vtree |-> None]

WmcLeaves(V) == [n \in 1..(2 + 2 * V) |-> WmcLeafNode(n)]

RECURSIVE EvalIn(_, _, _)
\* the truth value of node n of circuit g under the assignment a
EvalIn(g, n, a) ==
    IF g[n].kind = "false" THEN FALSE
    ELSE IF g[n].kind = "true" THEN TRUE
    ELSE IF g[n].kind = "literal"
         THEN IF g[n].literal > 0 THEN a[g[n].literal] ELSE ~a[0 - g[n].literal]
    ELSE \E i \in 1..Len(g[n].elems) :
            EvalIn(g, g[n].elems[i][1], a) /\ EvalIn(g, g[n].elems[i][2], a)

RECURSIVE VarsIn(_, _)
\* the variables that node n of circuit g mentions
VarsIn(g, n) ==
    IF g[n].kind = "literal" THEN {Abs(g[n].literal)}
    ELSE IF g[n].kind = "decision"
         THEN UNION { VarsIn(g, g[n].elems[i][1]) \cup VarsIn(g, g[n].elems[i][2])
                        : i \in 1..Len(g[n].elems) }
    ELSE {}

\* the lists of primes over the nodes of g that partition the assignments
PrimeLists(g, V, E) ==
    { pl \in UNION { [1..k -> DOMAIN g] : k \in 1..E } :
        /\ \A i \in 1..Len(pl) : \E a \in [1..V -> BOOLEAN] : EvalIn(g, pl[i], a)
        /\ \A a \in [1..V -> BOOLEAN] :
              Cardinality({ i \in 1..Len(pl) : EvalIn(g, pl[i], a) }) = 1 }

ElemLists(g, V, E) ==
    UNION { { [i \in 1..Len(pl) |-> <<pl[i], sl[i]>>] :
                sl \in { x \in [1..Len(pl) -> DOMAIN g] :
                           \A i \in 1..Len(pl) :
                              VarsIn(g, pl[i]) \cap VarsIn(g, x[i]) = {} } }
            : pl \in PrimeLists(g, V, E) }

Refers(el, n) == \E i \in 1..Len(el) : el[i][1] = n \/ el[i][2] = n

RECURSIVE WmcCircuits(_, _, _)
\* the circuits with D decision nodes, each one referred to by the next
WmcCircuits(V, D, E) ==
    IF D = 0 THEN {WmcLeaves(V)}
    ELSE UNION { { Append(g, DecisionNode(0, el)) :
                     el \in { x \in ElemLists(g, V, E) : D = 1 \/ Refers(x, Len(g)) } }
                 : g \in WmcCircuits(V, D - 1, E) }

\* the circuit of scenario A: (x1 and x2) or (not x1 and x3), as the
\* decision node [(x1, x2), (-x1, x3)] over the leaves of three variables
ScenarioA == Append(WmcLeaves(3), DecisionNode(0, << <<3, 5>>, <<4, 7>> >>))
ScenarioARoot == Len(ScenarioA)

\* the weights range over the variables of the circuits and of scenario A
MaxWeightVar == IF WmcVars < 3 THEN 3 ELSE WmcVars
Literals == { l \in (0 - MaxWeightVar)..MaxWeightVar : l # 0 }

\* every literal weighs 1
Ones == [l \in Literals |-> One]
\* tests/test_nnf.py, test_nnf1 and test_sdd1
Weights1 == [l \in Literals |-> IF Abs(l) = 1 THEN One ELSE Half]
\* tests/test_nnf.py, test_nnf2 and test_sdd2
Weights2 == [l \in Literals |-> IF l = 1 THEN One ELSE IF l = 0 - 1 THEN Zero ELSE Half]
\* weights that differ from literal to literal
Uneven == [l \in Literals |-> IF l > 0 THEN <<l + 1, 1>> ELSE <<1, 1 - l>>]
\* no weight for the literal -1
Incomplete == [l \in Literals \ {0 - 1} |-> One]

WeightChoices == {Ones, Weights1, Weights2, Uneven, Incomplete}

InitWmc ==
    /\ nodes \in WmcCircuits(WmcVars, WmcDecs, WmcElems) \cup {ScenarioA}
    /\ weights \in WeightChoices
    /\ vtree = OneLeaf
    /\ InitCalls
    /\ wmc = NoWmc

\* one call of weighted_model_count on a node of the circuit
WmcCall ==
    /\ wmc.pc = "idle"
    /\ \E root \in DOMAIN nodes :
          LET r == WeightedModelCount(nodes, weights, root)
          IN  wmc' = [pc |-> IF r.err = "none" THEN "done" ELSE "error",
                      root |-> root, value |-> r.value, err |-> r.err]
    /\ UNCHANGED <<nodes, vtree, pc, op, args, s, visited, stack, err, weights>>

SpecWmc == InitWmc /\ [][WmcCall]_vars

(***************************************************************************)
(* What a circuit means, for the properties below.                         *)
(***************************************************************************)
\* the assignments to the variables below root that satisfy root
Models(root) ==
    { a \in [VarsIn(nodes, root) -> BOOLEAN] : EvalIn(nodes, root, a) }

RECURSIVE ProductOver(_, _)
\* the product of the weights of the literals that assignment a chooses
ProductOver(a, V) ==
    IF V = {} THEN One
    ELSE LET v == CHOOSE x \in V : TRUE
         IN  RatMul(weights[IF a[v] THEN v ELSE 0 - v], ProductOver(a, V \ {v}))

RECURSIVE SumOver(_, _)
SumOver(M, V) ==
    IF M = {} THEN Zero
    ELSE LET a == CHOOSE x \in M : TRUE
         IN  RatAdd(ProductOver(a, V), SumOver(M \ {a}, V))

\* the weighted sum over the satisfying assignments
ModelSum(root) == SumOver(Models(root), VarsIn(nodes, root))

Decisions(root) == { n \in Reach(root) : is_decision(n) }

\* primes pairwise exclusive and exhaustive, prime and sub over disjoint variables
WellFormed(root) ==
    \A d \in Decisions(root) :
        /\ \A a \in [VarsIn(nodes, d) -> BOOLEAN] :
              Cardinality({ i \in 1..Len(elements(d)) :
                              EvalIn(nodes, elements(d)[i][1], a) }) = 1
        /\ \A i \in 1..Len(elements(d)) :
              VarsIn(nodes, elements(d)[i][1]) \cap VarsIn(nodes, elements(d)[i][2]) = {}

\* the elements of a decision node all mention the same variables
Smooth(root) ==
    \A d \in Decisions(root) :
        \A i, j \in 1..Len(elements(d)) :
            VarsIn(nodes, elements(d)[i][1]) \cup VarsIn(nodes, elements(d)[i][2])
              = VarsIn(nodes, elements(d)[j][1]) \cup VarsIn(nodes, elements(d)[j][2])

Complete(root) ==
    \A v \in VarsIn(nodes, root) : v \in DOMAIN weights /\ (0 - v) \in DOMAIN weights

(***************************************************************************)
(* C2.  For a well-formed circuit and complete weights the weighted model  *)
(* count is the sum, over the satisfying assignments of the circuit, of    *)
(* the product of the weights of the chosen literals; with all weights 1   *)
(* it is the number of satisfying assignments.                             *)
(***************************************************************************)
C2_CountIsModelSum ==
    (wmc.pc # "idle" /\ WellFormed(wmc.root) /\ Complete(wmc.root)) =>
        /\ wmc.pc = "done"
        /\ wmc.value = ModelSum(wmc.root)
        /\ weights = Ones => wmc.value = <<Cardinality(Models(wmc.root)), 1>>

(***************************************************************************)
(* C2, amended.  The same, for the well-formed circuits that are smooth    *)
(* as well: in every decision node all elements mention the same           *)
(* variables.  The assignments range over the variables the circuit        *)
(* mentions.                                                               *)
(***************************************************************************)
C2_SmoothCountIsModelSum ==
    (wmc.pc # "idle" /\ WellFormed(wmc.root) /\ Smooth(wmc.root) /\ Complete(wmc.root)) =>
        /\ wmc.pc = "done"
        /\ wmc.value = ModelSum(wmc.root)
        /\ weights = Ones => wmc.value = <<Cardinality(Models(wmc.root)), 1>>

\* a count of a smooth decision node over two variables or more, under
\* weights that are not all 1
C2_Witness ==
    /\ wmc.pc = "done"
    /\ is_decision(wmc.root)
    /\ Len(elements(wmc.root)) >= 2
    /\ Cardinality(VarsIn(nodes, wmc.root)) >= 2
    /\ Smooth(wmc.root) /\ WellFormed(wmc.root)
    /\ weights = Uneven
    /\ wmc.value # Zero

(***************************************************************************)
(* C3.  For the circuit (x1 and x2) or (not x1 and x3) the weighted model  *)
(* count is 1.0 under the weights +x1 = -x1 = 1 and 0.5 for the other      *)
(* literals, and 0.75 when the weight of -x1 is lowered to 0.              *)
(***************************************************************************)
ScenarioACounted == wmc.pc # "idle" /\ nodes = ScenarioA /\ wmc.root = ScenarioARoot

====
